---- MODULE Spec2Model ----
(***************************************************************************)
(* Model of examples/pytorch_hdf5_video_dataset.py: the HDF5VideoDataset   *)
(* adapter (construction, indexed lookup with frame subsampling, length)   *)
(* and the __main__ self-test loop that visits every index.                *)
(***************************************************************************)
EXTENDS Integers, Sequences, FiniteSets, TLC

\* ------------------------------------------------------------------ bounds
\* Largest native clip length and largest --frames value of the whole-program
\* specifications (Spec, SpecClient).
MaxL == 3
MaxF == 3
\* Largest --clips value.
MaxClips == 2
\* Largest class label of an annotation record.
MaxClass == 1
\* Input ranges of the sampling specification (SpecSample).
SampleMaxL == 16
SampleMaxF == 23

\* Significand width of the floats the sampling arithmetic runs on.
Prec == 53

\* Strings are sequences of one-character strings. The video identifiers an
\* annotation file may name: "ab" and "b".
VideoIds == { <<"a", "b">>, <<"b">> }

\* ------------------------------------------------------- strings and keys
Min(a, b) == IF a < b THEN a ELSE b

\* The characters of the identifiers, in code-point order.
Alphabet == <<"a", "b">>
Code(ch) == CHOOSE n \in 1..Len(Alphabet) : Alphabet[n] = ch

\* s < t in Python's string order (lexicographic, a proper prefix first).
StrLess(s, t) ==
    \E k \in 1..(Min(Len(s), Len(t)) + 1) :
        /\ \A j \in 1..(k - 1) : s[j] = t[j]
        /\ \/ k = Len(s) + 1 /\ k <= Len(t)
           \/ k <= Len(s) /\ k <= Len(t) /\ Code(s[k]) < Code(t[k])

RECURSIVE InsertSorted(_, _)
InsertSorted(x, s) ==
    IF s = <<>> THEN <<x>>
    ELSE IF StrLess(x, Head(s)) THEN <<x>> \o s
    ELSE <<Head(s)>> \o InsertSorted(x, Tail(s))

\* sorted(list of strings), ascending.
RECURSIVE Sorted(_)
Sorted(s) == IF s = <<>> THEN <<>> ELSE InsertSorted(Head(s), Sorted(Tail(s)))

DigitChar == <<"0", "1", "2", "3", "4", "5", "6", "7", "8", "9">>

RECURSIVE Digits(_)
Digits(n) ==
    IF n < 10 THEN <<DigitChar[n + 1]>>
    ELSE Digits(n \div 10) \o <<DigitChar[(n % 10) + 1]>>

Zeros(k) == [j \in 1..k |-> "0"]

\* "{:0<w>d}".format(n) for an int n: the sign, then the decimal digits padded
\* with zeros to the width w (the sign counts towards the width).
FormatD(n, w) ==
    LET ds   == Digits(IF n < 0 THEN 0 - n ELSE n)
        sign == IF n < 0 THEN <<"-">> ELSE <<>>
        pad  == w - Len(ds) - Len(sign)
    IN  sign \o (IF pad > 0 THEN Zeros(pad) ELSE <<>>) \o ds

\* ------------------------------------------------ Python numbers and floats
\* A value of a frame_index list: an int, or the float num/den.
PyInt(n) == [ty |-> "int", num |-> n, den |-> 1]
PyFloat(n, d) == [ty |-> "float", num |-> n, den |-> d]

\* n / 2 on ints: true division, always a float.
TrueDiv2(n) == IF n % 2 = 0 THEN PyFloat(n \div 2, 1) ELSE PyFloat(n, 2)

\* A binary float: sign * (bits read as a binary number, first bit highest)
\* * 2^exp; bits is empty for zero and holds Prec bits, the first 1, otherwise.
FZero == [sign |-> 1, bits |-> <<>>, exp |-> 0]

RECURSIVE IntBits(_)
IntBits(n) == IF n = 0 THEN <<>> ELSE IntBits(n \div 2) \o <<n % 2>>

RECURSIVE BitsVal(_)
BitsVal(b) == IF b = <<>> THEN 0 ELSE 2 * BitsVal(SubSeq(b, 1, Len(b) - 1)) + b[Len(b)]

\* bits + 1 at the lowest place; a carry out of the top gives 1 0...0 one
\* place higher.
RoundUp(bits, exp) ==
    IF \A j \in 1..Len(bits) : bits[j] = 1
    THEN [bits |-> [j \in 1..Len(bits) |-> IF j = 1 THEN 1 ELSE 0], exp |-> exp + 1]
    ELSE LET z == CHOOSE j \in 1..Len(bits) :
                      bits[j] = 0 /\ \A m \in (j + 1)..Len(bits) : bits[m] = 1
         IN  [bits |-> [j \in 1..Len(bits) |->
                           IF j < z THEN bits[j] ELSE IF j = z THEN 1 ELSE 0],
              exp |-> exp]

\* The quotient bits of (r / d) * 2^e, r < d, appended to bits until bits holds
\* Prec significant ones, with the remainder left over.
RECURSIVE QuotBits(_, _, _, _)
QuotBits(bits, r, d, e) ==
    IF Len(bits) = Prec THEN [bits |-> bits, exp |-> e, rem |-> r]
    ELSE IF 2 * r < d
         THEN QuotBits(IF bits = <<>> THEN <<>> ELSE Append(bits, 0), 2 * r, d, e - 1)
         ELSE QuotBits(Append(bits, 1), 2 * r - d, d, e - 1)

\* float(n) / float(d) for ints n and d > 0, rounded to nearest, ties to even.
FloatDiv(n, d) ==
    IF n = 0 THEN FZero
    ELSE LET absn  == IF n < 0 THEN 0 - n ELSE n
             quot  == QuotBits(IntBits(absn \div d), absn % d, d, 0)
             divup == \/ 2 * quot.rem > d
                      \/ 2 * quot.rem = d /\ quot.bits[Prec] = 1
             divm  == IF divup THEN RoundUp(quot.bits, quot.exp)
                      ELSE [bits |-> quot.bits, exp |-> quot.exp]
         IN  [sign |-> IF n < 0 THEN 0 - 1 ELSE 1,
              bits |-> divm.bits, exp |-> divm.exp]

\* bits * k as a bit sequence, from the lowest place with a running carry.
RECURSIVE MulBits(_, _, _)
MulBits(bits, k, carry) ==
    IF bits = <<>> THEN IntBits(carry)
    ELSE IF (bits[Len(bits)] * k + carry) % 2 = 0
         THEN MulBits(SubSeq(bits, 1, Len(bits) - 1), k,
                      (bits[Len(bits)] * k + carry) \div 2) \o <<0>>
         ELSE MulBits(SubSeq(bits, 1, Len(bits) - 1), k,
                      (bits[Len(bits)] * k + carry) \div 2) \o <<1>>

\* float(mult) * y for an int mult >= 0: the exact product rounded to Prec bits,
\* to nearest, ties to even.
FloatMulInt(mult, y) ==
    IF mult = 0 \/ y.bits = <<>> THEN FZero
    ELSE LET prod  == MulBits(y.bits, mult, 0)
             drop  == Len(prod) - Prec
             kept  == SubSeq(prod, 1, Prec)
             mulup == /\ drop > 0
                      /\ prod[Prec + 1] = 1
                      /\ \/ kept[Prec] = 1
                         \/ \E j \in (Prec + 2)..Len(prod) : prod[j] = 1
             mulm  == IF mulup THEN RoundUp(kept, y.exp + drop)
                      ELSE [bits |-> kept, exp |-> y.exp + drop]
         IN  [sign |-> y.sign, bits |-> mulm.bits, exp |-> mulm.exp]

\* round(v) of a float v, |v| < 2^30: the nearest int, ties to the even one.
PyRound(v) ==
    IF v.bits = <<>> THEN 0
    ELSE LET places == Len(v.bits) + v.exp
             whole  == IF places >= 1 THEN BitsVal(SubSeq(v.bits, 1, places)) ELSE 0
             rndup  == /\ places >= 0
                       /\ v.bits[places + 1] = 1
                       /\ \/ whole % 2 = 1
                          \/ \E j \in (places + 2)..Len(v.bits) : v.bits[j] = 1
         IN  v.sign * (whole + IF rndup THEN 1 ELSE 0)

\* ------------------------------------------------------------- sampling
\* Variant: a clip shorter than the configured count is used whole.
FrameIndexClamped(len_of_frames, num_frames_per_clip) ==
    IF len_of_frames > num_frames_per_clip /\ num_frames_per_clip > 0
    THEN IF num_frames_per_clip = 1
         THEN << TrueDiv2(len_of_frames) >>
         ELSE LET cskips == FloatDiv(len_of_frames - 1, num_frames_per_clip - 1)
              IN  [cfi \in 1..num_frames_per_clip |->
                      PyInt(PyRound(FloatMulInt(cfi - 1, cskips)))]
    ELSE [j \in 1..len_of_frames |-> PyInt(j - 1)]

\* Variant: the step spans len_of_frames, not len_of_frames - 1.
FrameIndexSkipsLen(len_of_frames, num_frames_per_clip) ==
    IF len_of_frames # num_frames_per_clip /\ num_frames_per_clip > 0
    THEN IF num_frames_per_clip = 1
         THEN << TrueDiv2(len_of_frames) >>
         ELSE LET lskips == FloatDiv(len_of_frames, num_frames_per_clip - 1)
              IN  [lfi \in 1..num_frames_per_clip |->
                      PyInt(PyRound(FloatMulInt(lfi - 1, lskips)))]
    ELSE [j \in 1..len_of_frames |-> PyInt(j - 1)]

\* Lines 36-43: the frame_index list for a clip of len_of_frames frames and
\* num_frames_per_clip configured frames.
FrameIndex(len_of_frames, num_frames_per_clip) ==
    IF len_of_frames # num_frames_per_clip /\ num_frames_per_clip > 0
    THEN IF num_frames_per_clip = 1
         THEN << TrueDiv2(len_of_frames) >>
         ELSE LET skips == FloatDiv(len_of_frames - 1, num_frames_per_clip - 1)
              IN  [fi \in 1..num_frames_per_clip |->
                      PyInt(PyRound(FloatMulInt(fi - 1, skips)))]
    ELSE [j \in 1..len_of_frames |-> PyInt(j - 1)]

\* ------------------------------------------------------------ container
\* A group of the HDF5 file: a clip of len frames named "{:08d}" of 0..len-1,
\* of which frame bad (if any) holds bytes that are no image. Missing stands
\* for a key the file does not hold. The groups a file may hold: every length
\* up to maxlen, sound or with an undecodable first frame.
Missing == [present |-> FALSE, len |-> 0, bad |-> 0 - 1]
Groups(maxlen) ==
    {Missing} \cup
    { [present |-> TRUE, len |-> n, bad |-> 0 - 1] : n \in 0..maxlen } \cup
    { [present |-> TRUE, len |-> n, bad |-> 0] : n \in 1..maxlen }

FrameName(ith_frame) == FormatD(ith_frame, 8)
Members(group) == { FrameName(j) : j \in 0..(group.len - 1) }
\* The frame number stored under a member name.
FrameOf(group, name) == CHOOSE j \in 0..(group.len - 1) : FrameName(j) = name

\* Lines 48-53: what one pass of the decode loop raises on ith_frame: the
\* format of a float, the lookup of an absent member, the decoding of bytes
\* that are no image; "none" when the frame is decoded.
FrameExc(group, ith_frame) ==
    IF ith_frame.ty # "int" THEN "ValueError"
    ELSE IF FrameName(ith_frame.num) \notin Members(group) THEN "KeyError"
    ELSE IF ith_frame.num = group.bad THEN "OSError"
    ELSE "none"

\* The position of the first element of frame_index the loop raises on, one
\* past the end when it raises on none.
FirstRaising(group, frame_index) ==
    IF \A k \in 1..Len(frame_index) : FrameExc(group, frame_index[k]) = "none"
    THEN Len(frame_index) + 1
    ELSE CHOOSE k \in 1..Len(frame_index) :
             /\ FrameExc(group, frame_index[k]) # "none"
             /\ \A j \in 1..(k - 1) : FrameExc(group, frame_index[j]) = "none"

\* Lines 46-54: the decode loop over frame_index, in order; it stops at the
\* first element that raises. requested lists the member names asked of the
\* group, frames the frames decoded.
DecodeFrames(group, frame_index) ==
    LET stop == FirstRaising(group, frame_index)
        exc  == IF stop > Len(frame_index) THEN "none"
                ELSE FrameExc(group, frame_index[stop])
        asked == IF exc \in {"KeyError", "OSError"} THEN stop ELSE stop - 1
    IN  [exc       |-> exc,
         requested |-> [k \in 1..asked |-> FrameName(frame_index[k].num)],
         frames    |-> [k \in 1..(stop - 1) |->
                           FrameOf(group, FrameName(frame_index[k].num))]]

\* Lines 35-54 for every clip and every frame count of the whole-program
\* specifications, tabulated once: the list sampled and what decoding it gives.
SampledAndDecoded ==
    [q \in (Groups(MaxL) \ {Missing}) \X (0..MaxF) |->
        [frame_index |-> FrameIndex(q[1].len, q[2]),
         decoded     |-> DecodeFrames(q[1], FrameIndex(q[1].len, q[2]))]] @@ <<>>

\* -------------------------------------------------------------- dataset
\* json.load of an object: a dict keeps a key at its first position and the
\* value of its last occurrence.
RECURSIVE DictKeys(_)
DictKeys(members) ==
    IF members = <<>> THEN <<>>
    ELSE LET front == DictKeys(SubSeq(members, 1, Len(members) - 1))
             id    == members[Len(members)].id
         IN  IF \E n \in 1..Len(front) : front[n] = id THEN front
             ELSE Append(front, id)

JsonLoad(members) ==
    [keys  |-> DictKeys(members),
     class |-> [id \in { members[n].id : n \in 1..Len(members) } |->
                  members[CHOOSE n \in 1..Len(members) :
                              /\ members[n].id = id
                              /\ \A m \in (n + 1)..Len(members) : members[m].id # id].class]]

NoDataset == [tag |-> "none"]
AssertionError == [tag |-> "AssertionError"]

\* Variant: the constructor also insists on at least one clip.
NewDatasetChecked(members, clips, frames) ==
    IF frames >= 0 /\ clips >= 1
    THEN [tag |-> "HDF5VideoDataset", num_clips |-> clips,
          num_frames_per_clip |-> frames, annotation |-> JsonLoad(members),
          videos |-> Sorted(JsonLoad(members).keys)]
    ELSE AssertionError

\* Lines 13-25: HDF5VideoDataset(annotation, database, clips, frames), with
\* readable files and no transform.
NewDataset(members, clips, frames) ==
    IF frames >= 0
    THEN [tag |-> "HDF5VideoDataset", num_clips |-> clips,
          num_frames_per_clip |-> frames, annotation |-> JsonLoad(members),
          videos |-> Sorted(JsonLoad(members).keys)]
    ELSE AssertionError

\* Variant: the length counts clips, not videos.
DatasetLenClips(self) == Len(self.videos) * self.num_clips

\* Lines 64-65: __len__.
DatasetLen(self) == Len(self.videos)

\* Variant: the first clip is always taken.
RandintFirst(lo, hi) == IF lo <= hi THEN {lo} ELSE {}

\* random.randint(lo, hi): any of lo..hi; it raises ValueError when there is none.
Randint(lo, hi) == lo..hi

NoChoice == 0 - 1
NoCall ==
    [index |-> 0, outcome |-> "none", exc |-> "none", video_id |-> <<>>,
     clip |-> NoChoice, len |-> 0 - 1, frame_index |-> <<>>, requested |-> <<>>,
     video_data |-> <<>>, label |-> 0 - 1]

\* "{}/{:03d}".format(video_id, clip)
ClipKey(video_id, clip) == video_id \o <<"/">> \o FormatD(clip, 3)

\* list[index]: the position of a valid index (a negative one counts from the
\* end), 0 for an index out of range.
ListPos(n, index) ==
    IF 0 <= index /\ index < n THEN index + 1
    ELSE IF 0 - n <= index /\ index < 0 THEN n + index + 1
    ELSE 0

\* The clip numbers line 29 may draw, NoChoice when randint raises.
ClipChoices(self) ==
    IF Randint(0, self.num_clips - 1) = {} THEN {NoChoice}
    ELSE Randint(0, self.num_clips - 1)

\* Lines 27-62: dataset[index], with clip the number randint drew and group
\* what the file holds under the clip's key.
GetItem(self, index, clip, group) ==
    LET at == ListPos(Len(self.videos), index)
    IN  IF at = 0
        THEN [NoCall EXCEPT !.index = index, !.outcome = "raised", !.exc = "IndexError"]
        ELSE IF clip = NoChoice
        THEN [NoCall EXCEPT !.index = index, !.outcome = "raised", !.exc = "ValueError",
                            !.video_id = self.videos[at]]
        ELSE IF ~group.present
        THEN [NoCall EXCEPT !.index = index, !.outcome = "raised", !.exc = "KeyError",
                            !.video_id = self.videos[at], !.clip = clip]
        ELSE LET sampled == SampledAndDecoded[<<group, self.num_frames_per_clip>>].frame_index
                 decoded == SampledAndDecoded[<<group, self.num_frames_per_clip>>].decoded
             IN  [index       |-> index,
                  outcome     |-> IF decoded.exc = "none" THEN "returned" ELSE "raised",
                  exc         |-> decoded.exc,
                  video_id    |-> self.videos[at],
                  clip        |-> clip,
                  len         |-> group.len,
                  frame_index |-> sampled,
                  requested   |-> decoded.requested,
                  video_data  |-> IF decoded.exc = "none" THEN decoded.frames ELSE <<>>,
                  label       |-> IF decoded.exc = "none"
                                  THEN self.annotation.class[self.videos[at]]
                                  ELSE 0 - 1]

\* ----------------------------------------------------------------- state
VARIABLES
    pc,               \* where the caller stands
    argv,             \* [clips, frames]: the constructor's arguments
    annotation_file,  \* the "annotation" object of the JSON file, members in file order
    database,         \* the groups of the HDF5 file read so far, by key
    dataset,          \* the HDF5VideoDataset object, NoDataset before construction
    last,             \* the latest __getitem__ call
    prev,             \* the __getitem__ call before it
    i,                \* __main__: the loop index
    error_index,      \* __main__: error_index
    visited           \* __main__: the indices the loop has visited, with outcome

vars == <<pc, argv, annotation_file, database, dataset, last, prev, i,
          error_index, visited>>

\* The command lines and the annotation files the program is run on.
ArgvSet == [clips : (0 - 1)..MaxClips, frames : (0 - 1)..MaxF]
AnnotationFiles ==
    { f \in UNION { [1..n -> [id : VideoIds, class : 0..MaxClass]] :
                        n \in 0..Cardinality(VideoIds) } :
          \A m, n \in 1..Len(f) : f[m].id = f[n].id => m = n }

NoPrev == [called |-> FALSE, index |-> 0, clip |-> NoChoice, outcome |-> "none"]

Init ==
    /\ pc = "start"
    /\ argv \in ArgvSet
    /\ annotation_file \in AnnotationFiles
    /\ database = <<>>
    /\ dataset = NoDataset
    /\ last = NoCall
    /\ prev = NoPrev
    /\ i = 0
    /\ error_index = <<>>
    /\ visited = <<>>

\* One evaluation of dataset[index] in which randint draws clip. The file is
\* read-only: a key read before holds the group it held then, a key read for
\* the first time any group, or none.
Call(index, clip) ==
    /\ clip \in ClipChoices(dataset)
    /\ prev' = IF last.outcome = "none" THEN NoPrev
               ELSE [called |-> TRUE, index |-> last.index, clip |-> last.clip,
                     outcome |-> last.outcome]
    /\ IF ListPos(Len(dataset.videos), index) = 0 \/ clip = NoChoice
       THEN /\ last' = GetItem(dataset, index, clip, Missing)
            /\ UNCHANGED database
       ELSE LET key == ClipKey(dataset.videos[ListPos(Len(dataset.videos), index)], clip)
            IN  IF key \in DOMAIN database
                THEN /\ last' = GetItem(dataset, index, clip, database[key])
                     /\ UNCHANGED database
                ELSE \E group \in Groups(MaxL) :
                        /\ database' = (key :> group) @@ database
                        /\ last' = GetItem(dataset, index, clip, group)

\* ---------------------------------------------------------------- __main__
\* Lines 84-86: the dataset is built; an AssertionError ends the script.
MainConstruct ==
    /\ pc = "start"
    /\ dataset' = NewDataset(annotation_file, argv.clips, argv.frames)
    /\ pc' = IF dataset'.tag = "HDF5VideoDataset" THEN "loop" ELSE "aborted"
    /\ error_index' = <<>>
    /\ UNCHANGED <<argv, annotation_file, database, last, prev, i, visited>>

\* Variant: only a missing key is caught.
CaughtKeyErrorOnly(exc) == exc = "KeyError"

\* What "except Exception" catches.
Caught(exc) == exc \in {"IndexError", "ValueError", "KeyError", "OSError"}

\* Lines 87-93: one iteration of the loop over trange(len(dataset)).
MainLoop ==
    /\ pc = "loop"
    /\ i < DatasetLen(dataset)
    /\ \E clip \in ClipChoices(dataset) : Call(i, clip)
    /\ visited' = Append(visited, [index |-> i, raised |-> last'.outcome = "raised"])
    /\ IF last'.outcome = "raised"
       THEN IF Caught(last'.exc)
            THEN error_index' = Append(error_index, i) /\ i' = i + 1 /\ pc' = "loop"
            ELSE pc' = "crashed" /\ UNCHANGED <<error_index, i>>
       ELSE i' = i + 1 /\ UNCHANGED <<error_index, pc>>
    /\ UNCHANGED <<argv, annotation_file, dataset>>

\* Lines 95-100: the summary.
MainSummary ==
    /\ pc = "loop"
    /\ i = DatasetLen(dataset)
    /\ pc' = "done"
    /\ UNCHANGED <<argv, annotation_file, database, dataset, last, prev, i,
                   error_index, visited>>

Next == MainConstruct \/ MainLoop \/ MainSummary

Spec == Init /\ [][Next]_vars

\* ------------------------------------------------------ a library caller
\* A caller that builds the dataset, looks one item up and looks the same
\* item up again.
ClientConstruct ==
    /\ pc = "start"
    /\ dataset' = NewDataset(annotation_file, argv.clips, argv.frames)
    /\ pc' = IF dataset'.tag = "HDF5VideoDataset" THEN "ready" ELSE "aborted"
    /\ UNCHANGED <<argv, annotation_file, database, last, prev, i, error_index, visited>>

\* dataset[index], randint drawing clip.
ClientGetItemAt(index, clip) ==
    /\ pc = "ready"
    /\ Call(index, clip)
    /\ pc' = "once"
    /\ UNCHANGED <<argv, annotation_file, dataset, i, error_index, visited>>

ClientGetItem ==
    /\ pc = "ready"
    /\ \E index \in (0 - 1)..DatasetLen(dataset) :
           \E clip \in ClipChoices(dataset) : ClientGetItemAt(index, clip)

\* dataset[index] again, randint drawing clip.
ClientGetItemAgainWith(clip) ==
    /\ pc = "once"
    /\ Call(last.index, clip)
    /\ pc' = "twice"
    /\ UNCHANGED <<argv, annotation_file, dataset, i, error_index, visited>>

ClientGetItemAgain ==
    /\ pc = "once"
    /\ \E clip \in ClipChoices(dataset) : ClientGetItemAgainWith(clip)

NextClient == ClientConstruct \/ ClientGetItem \/ ClientGetItemAgain

SpecClient == Init /\ [][NextClient]_vars

\* ------------------------------------------------- the sampling on its own
\* Lines 35-54 on a well-formed clip: every clip length against every
\* configured frame count.
InitSample ==
    /\ pc = "sample"
    /\ argv \in [clips : {1}, frames : 0..SampleMaxF]
    /\ annotation_file = <<>>
    /\ database = <<>>
    /\ dataset = NewDataset(annotation_file, argv.clips, argv.frames)
    /\ last \in { [NoCall EXCEPT !.len = n] : n \in 0..SampleMaxL }
    /\ prev = NoPrev
    /\ i = 0
    /\ error_index = <<>>
    /\ visited = <<>>

SampleFrames ==
    /\ pc = "sample"
    /\ last' = [last EXCEPT !.frame_index = FrameIndex(last.len, dataset.num_frames_per_clip)]
    /\ pc' = "decode"
    /\ UNCHANGED <<argv, annotation_file, database, dataset, prev, i, error_index, visited>>

DecodeSampled ==
    /\ pc = "decode"
    /\ LET decoded == DecodeFrames([present |-> TRUE, len |-> last.len, bad |-> 0 - 1],
                                   last.frame_index)
       IN  last' = [last EXCEPT !.outcome = IF decoded.exc = "none" THEN "returned"
                                            ELSE "raised",
                                !.exc = decoded.exc,
                                !.requested = decoded.requested,
                                !.video_data = IF decoded.exc = "none" THEN decoded.frames
                                               ELSE <<>>]
    /\ pc' = "sampled"
    /\ UNCHANGED <<argv, annotation_file, database, dataset, prev, i, error_index, visited>>

NextSample == SampleFrames \/ DecodeSampled

SpecSample == InitSample /\ [][NextSample]_vars

\* ================================================================ claims
Constructed == dataset.tag = "HDF5VideoDataset"
Frames == dataset.num_frames_per_clip

\* The group the latest call read.
LastGroup == database[ClipKey(last.video_id, last.clip)]

\* The class the annotation file gives the key that has exactly rank keys
\* before it in ascending order.
ClassOfRank(members, rank) ==
    LET m == CHOOSE m \in 1..Len(members) :
                 Cardinality({ n \in 1..Len(members) :
                                  StrLess(members[n].id, members[m].id) }) = rank
    IN  members[m].class

\* n / d rounded to the nearest integer, a tie to the even one (d > 0).
RoundRat(n, d) ==
    LET fl == n \div d
        r2 == 2 * (n % d)
    IN  IF r2 < d THEN fl
        ELSE IF r2 > d THEN fl + 1
        ELSE IF fl % 2 = 0 THEN fl ELSE fl + 1

IntList(s) == \A k \in 1..Len(s) : s[k].ty = "int"
AllFrames(len) == [j \in 1..len |-> PyInt(j - 1)]

\* C1 (as claimed): every lookup at a valid index of a sound clip that holds at
\* least one frame returns, and its label is the class of the index-th key in
\* ascending order, whatever the configured frame count.
C1_LabelReturned ==
    ( /\ Constructed
      /\ last.outcome # "none"
      /\ 0 <= last.index /\ last.index < Len(dataset.videos)
      /\ last.clip # NoChoice
      /\ LastGroup.present /\ LastGroup.bad = 0 - 1 /\ LastGroup.len >= 1 )
    => /\ last.outcome = "returned"
       /\ last.label = ClassOfRank(annotation_file, last.index)

\* C2 (as claimed): every element of the frame_index list sampled for a clip
\* of L >= 1 frames is an int within [0, L), whatever the configured frame
\* count.
C2_IndicesInRange ==
    (pc \in {"decode", "sampled"} /\ last.len >= 1)
    => \A k \in 1..Len(last.frame_index) :
           /\ last.frame_index[k].ty = "int"
           /\ 0 <= last.frame_index[k].num
           /\ last.frame_index[k].num < last.len

\* C3 (as claimed): with one configured frame, a clip of L >= 1 frames is
\* sampled at the int round(L/2) and the lookup returns that one frame.
C3_SingleMiddleFrame ==
    (pc = "sampled" /\ Frames = 1 /\ last.len >= 1)
    => /\ last.frame_index = << PyInt(RoundRat(last.len, 2)) >>
       /\ last.outcome = "returned"
       /\ last.video_data = << RoundRat(last.len, 2) >>

\* C4: a lookup that returns hands back exactly F frames when F > 1 (also when
\* F exceeds the clip length) and exactly L frames when F = 0.
C4_ReturnedLength ==
    (Constructed /\ last.outcome = "returned")
    => /\ Frames > 1 => Len(last.video_data) = Frames
       /\ Frames = 0 => Len(last.video_data) = last.len

C4_Witness ==
    /\ Constructed
    /\ last.outcome = "returned"
    /\ Frames > 1
    /\ Frames > last.len
    /\ Len(last.video_data) = Frames

NonDecreasing(s) == \A k \in 1..(Len(s) - 1) : s[k].num <= s[k + 1].num

\* C5 (as claimed): for F > 1 and every clip length L the sampled list is
\* non-decreasing, starts at 0 and ends at L - 1.
C5_Original ==
    (pc \in {"decode", "sampled"} /\ Frames > 1)
    => /\ IntList(last.frame_index)
       /\ NonDecreasing(last.frame_index)
       /\ last.frame_index[1].num = 0
       /\ last.frame_index[Len(last.frame_index)].num = last.len - 1

\* C5 (amended): for F > 1 and every clip length L >= 1 the sampled list is
\* non-decreasing, starts at 0 and ends at L - 1.
C5_Monotone ==
    (pc \in {"decode", "sampled"} /\ Frames > 1 /\ last.len >= 1)
    => /\ IntList(last.frame_index)
       /\ NonDecreasing(last.frame_index)
       /\ last.frame_index[1].num = 0
       /\ last.frame_index[Len(last.frame_index)].num = last.len - 1

C5_Witness ==
    /\ pc = "sampled"
    /\ Frames > last.len
    /\ last.len > 1
    /\ last.outcome = "returned"
    /\ last.frame_index[Len(last.frame_index)].num = last.len - 1

\* C6: for F > 1 and F # L the list is exactly
\* round(i * (L-1) / (F-1)), i = 0..F-1, ties to even; for F = 0 or F = L it
\* is 0..L-1.
C6_Original ==
    pc \in {"decode", "sampled"}
    => IF Frames > 1 /\ Frames # last.len
       THEN last.frame_index =
                [k \in 1..Frames |-> PyInt(RoundRat((k - 1) * (last.len - 1), Frames - 1))]
       ELSE (Frames = 0 \/ Frames = last.len) => last.frame_index = AllFrames(last.len)

RECURSIVE RaisedIndices(_)
RaisedIndices(seen) ==
    IF seen = <<>> THEN <<>>
    ELSE IF seen[Len(seen)].raised
         THEN Append(RaisedIndices(SubSeq(seen, 1, Len(seen) - 1)), seen[Len(seen)].index)
         ELSE RaisedIndices(SubSeq(seen, 1, Len(seen) - 1))

\* C7: the loop visits 0, 1, ... in order, each index once; a lookup that
\* raises never ends the script; error_index lists, in order, exactly the
\* indices whose lookup raised; the script can always step until the summary,
\* which it reaches with every index visited.
C7_LoopVisitsAll ==
    /\ pc # "crashed"
    /\ pc \in {"loop", "done"}
       => /\ Len(visited) = i
          /\ \A k \in 1..Len(visited) : visited[k].index = k - 1
          /\ error_index = RaisedIndices(visited)
          /\ i <= DatasetLen(dataset)
          /\ pc = "loop" => ENABLED Next
          /\ pc = "done" => i = DatasetLen(dataset)

C7_Witness ==
    /\ pc = "done"
    /\ i = 2
    /\ error_index = <<0>>

\* C8: the clip a lookup draws lies in 0..num_clips-1, and whatever was drawn
\* before, every clip of 0..num_clips-1 can be drawn by the next lookup.
C8_AnyClipEachAccess ==
    /\ last.clip # NoChoice => (0 <= last.clip /\ last.clip <= dataset.num_clips - 1)
    /\ pc = "ready"
       => \A index \in 0..(Len(dataset.videos) - 1) :
              \A c \in 0..(dataset.num_clips - 1) :
                  ENABLED (ClientGetItemAt(index, c) /\ last'.clip = c)
    /\ (pc = "once" /\ ListPos(Len(dataset.videos), last.index) # 0)
       => \A c \in 0..(dataset.num_clips - 1) :
              ENABLED (ClientGetItemAgainWith(c) /\ last'.clip = c)

\* Two lookups of one index that read different clips.
C8_Witness ==
    /\ pc = "twice"
    /\ prev.called
    /\ prev.index = last.index
    /\ prev.clip # NoChoice
    /\ last.clip # NoChoice
    /\ prev.clip # last.clip

\* C9: len(dataset) is the number of distinct keys of the annotation, and no
\* step after construction, a lookup that returns or one that raises, changes
\* the dataset's videos, annotation, num_clips or num_frames_per_clip.
C9_LenAndFieldsStable ==
    /\ [](Constructed
          => DatasetLen(dataset)
                 = Cardinality({ annotation_file[n].id : n \in 1..Len(annotation_file) }))
    /\ [][Constructed => dataset' = dataset]_vars

C9_Witness ==
    /\ pc = "twice"
    /\ prev.outcome = "returned"
    /\ last.outcome = "raised"
    /\ DatasetLen(dataset) = 2

\* C10: construction fails exactly when frames < 0; for frames >= 0 it yields
\* a dataset holding the given clips and frames, whatever clips is.
C10_OnlyFramesValidated ==
    pc # "start"
    => /\ pc = "aborted" <=> argv.frames < 0
       /\ argv.frames >= 0
          => /\ Constructed
             /\ dataset.num_clips = argv.clips
             /\ dataset.num_frames_per_clip = argv.frames

C10_Witness ==
    /\ Constructed
    /\ argv.clips <= 0
    /\ pc = "done"
====
